---- MODULE Spec2Model ----
(***************************************************************************)
(* The analytics event ingestion pipeline of src/lib/utils/batch-queue.ts: *)
(* the two BatchQueue instances (viewQueue, clickQueue), their timers,     *)
(* the insert functions built by initializeQueues, flushAllQueues and the  *)
(* shutdown handlers (flushAll on SIGTERM / SIGINT / beforeExit).          *)
(*                                                                         *)
(* JavaScript runs one callback at a time, so every action below is one    *)
(* synchronous run of the code: from a callback's entry (or from the       *)
(* settlement of the promise it awaits) up to its next await.              *)
(*                                                                         *)
(* Sizes are scaled: the source's 1000 is Kilo here, so that               *)
(* maxBatchSize = Kilo, maxQueueSize = 2 * Kilo and the slice(0, 1000) of  *)
(* the reinsertion keeps Kilo events.  The ratios of the source are kept.  *)
(***************************************************************************)
EXTENDS Integers, Sequences, FiniteSets, TLC

\* ---------------------------------------------------------------- bounds
\* The model's stand-in for the source's 1000.
Kilo == 3
\* Events accepted by the view queue under SpecBacklog.
MaxEvents == 11
\* Events accepted by each queue under Spec.
MaxPairEvents == 2
\* ... per queue when the database takes part, with the number of statements
\* whose reply gets lost ...
MaxStoreEvents == 2
MaxLost == 1
\* The largest maxRetries retryWithBackoff is called with.
MaxRetries == 3
\* ... and per queue when only addView / addClick run.
MaxIngestEvents == 4
\* How many clicks the click route records, and how many of its background
\* chains can wait at once.
MaxRouteEvents == 3
MaxTasks == 2

\* ------------------------------------------------------------- constants
\* new BatchQueue(insertFn, 1000, 3600000)
maxBatchSize == Kilo
\* const maxQueueSize = 2000
maxQueueSize == 2 * Kilo
\* itemsToInsert.slice(0, 1000)
retrySliceLen == Kilo

Queues == {"view", "click"}
Signals == {"SIGTERM", "SIGINT", "beforeExit"}

VARIABLES
    bq,      \* the BatchQueue instances: bq["view"] is viewQueue, bq["click"] clickQueue
    nextId,  \* per queue, the identity the next accepted event gets (enqueue order)
    faq,     \* the running flushAllQueues() call
    sd,      \* the shutdown handler (flushAll)
    last,    \* what the last step did (observation only; no action reads it)
    tasks,   \* the background promise chains of the click route that have not run yet
    db,      \* the tables of the database: linktrees, links, page_views, link_clicks
    rb,      \* the running retryWithBackoff() call
    cl,      \* the running createLinktree() calls, one per caller
    pages,   \* the rows of linktrees as createLinktree and the uid lookup see them
    cache    \* uidToIdCache, the clock and the pending getLinktreeIdByUid() calls

vars == <<bq, nextId, faq, sd, last, tasks, db, rb, cl, pages, cache>>
\* What the queues' code never touches.
env == <<tasks, db, rb, cl, pages, cache>>
\* What only createLinktree and getLinktreeIdByUid touch.
adm == <<cl, pages, cache>>

\* ----------------------------------------------------------- strings
\* A value of type string | null | undefined: null (or a missing field), or
\* a string, held as its sequence of characters.
Null == [null |-> TRUE, chars |-> <<>>]
Str(c) == [null |-> FALSE, chars |-> c]

\* String.prototype.trim, for the blank as the only whitespace character.
RECURSIVE TrimStart(_)
TrimStart(c) == IF c # <<>> /\ Head(c) = " " THEN TrimStart(Tail(c)) ELSE c
RECURSIVE TrimEnd(_)
TrimEnd(c) ==
    IF c # <<>> /\ c[Len(c)] = " " THEN TrimEnd(SubSeq(c, 1, Len(c) - 1)) ELSE c
Trim(c) == TrimEnd(TrimStart(c))

\* The truth value of a string | null in a condition.
Truthy(v) == ~v.null /\ v.chars # <<>>

\* ----------------------------------------------------------- records
\* The pages (linktrees) and links an event can name, the visitor's address
\* and a session token.
P1 == Str(<<"p", "1">>)
P2 == Str(<<"p", "2">>)
L1 == Str(<<"l", "1">>)
L2 == Str(<<"l", "2">>)
Ip == Str(<<"i", "p">>)
Tok == Str(<<"t">>)
\* An id of the shape of L1 and L2 that names no link.
L3 == Str(<<"l", "3">>)
Empty == Str(<<>>)
Blank == Str(<<" ">>)

\* A ViewRecord / ClickRecord.  id is the enqueue number of the record in its
\* queue; it stands for the instant in viewed_at / clicked_at.  A ViewRecord
\* has no link_id.
Record(link, page, ip, session) ==
    [id |-> 0, link_id |-> link, linktree_id |-> page, ip_address |-> ip,
     session_id |-> session]

\* A well-formed record for the queue q, without a session token.
ValidRecord(q) == Record(IF q = "click" THEN L1 ELSE Null, P1, Ip, Null)

\* !f || !f.trim()
Missing(f) == ~Truthy(f) \/ Trim(f.chars) = <<>>

\* The fields a record of q must carry.
Required(q) ==
    IF q = "click" THEN {"link_id", "linktree_id", "ip_address"}
    ELSE {"linktree_id", "ip_address"}

\* A slip: the test without the trim() calls.
isValid_noTrim(q, rec) == \A f \in Required(q) : Truthy(rec[f])

\* The test of addView / addClick, and of the filter in the insert functions.
isValid(q, rec) == \A f \in Required(q) : ~Missing(rec[f])

\* ------------------------------------------------------------ errors
\* An error thrown by query(): a pg error carries a five character code, a
\* network error carries none.  Codes are sequences of characters (digits).
UniqueViolation == [hasCode |-> TRUE, code |-> <<2, 3, 5, 0, 5>>]
ForeignKeyViolation == [hasCode |-> TRUE, code |-> <<2, 3, 5, 0, 3>>]
QueryCanceled == [hasCode |-> TRUE, code |-> <<5, 7, 0, 1, 4>>]
ConnectionLost == [hasCode |-> FALSE, code |-> <<>>]
Errors == {UniqueViolation, ForeignKeyViolation, QueryCanceled, ConnectionLost}
NoError == [hasCode |-> FALSE, code |-> <<0>>]

Resolved == [ok |-> TRUE, error |-> NoError]
Rejected(e) == [ok |-> FALSE, error |-> e]
\* What the awaited query() of an insert can settle with.
QueryResults == {Resolved} \cup {Rejected(e) : e \in Errors}

\* String.prototype.includes
Includes(s, sub) ==
    \E i \in 1..(Len(s) - Len(sub) + 1) : SubSeq(s, i, i + Len(sub) - 1) = sub

\* A slip: only the duplicate key code is recognised.
isIgnorableError_onlyDuplicate(error) ==
    error.hasCode /\ Includes(error.code, <<2, 3, 5, 0, 5>>)

\* 'code' in error && (String(error.code).includes('23505') ||
\*                     String(error.code).includes('23503'))
isIgnorableError(error) ==
    /\ error.hasCode
    /\ \/ Includes(error.code, <<2, 3, 5, 0, 5>>)
       \/ Includes(error.code, <<2, 3, 5, 0, 3>>)

\* A slip: session_id is passed as it came.
insertValues_sessionAsIs(q, items) ==
    LET validItems == SelectSeq(items, LAMBDA item : isValid(q, item))
    IN  [i \in 1..Len(validItems) |->
            [link_id |-> validItems[i].link_id,
             linktree_id |-> validItems[i].linktree_id,
             ip_address |-> validItems[i].ip_address,
             session_id |-> validItems[i].session_id,
             at |-> validItems[i].id]]

\* The rows an insert function hands to query(): one per item that passes
\* the filter, in the order of the batch, with `item.session_id || null`.
\* at is viewed_at / clicked_at; link_id is null in the rows of page_views.
insertValues(q, items) ==
    LET validItems == SelectSeq(items, LAMBDA item : isValid(q, item))
    IN  [i \in 1..Len(validItems) |->
            [link_id |-> validItems[i].link_id,
             linktree_id |-> validItems[i].linktree_id,
             ip_address |-> validItems[i].ip_address,
             session_id |-> IF Truthy(validItems[i].session_id)
                            THEN validItems[i].session_id ELSE Null,
             at |-> validItems[i].id]]

\* The insert function of a queue, given how its query() settles: the catch
\* swallows the ignorable codes and rethrows every other error.
insertFn(items, qres) ==
    IF items = <<>> THEN Resolved
    ELSE IF qres.ok THEN Resolved
    ELSE IF isIgnorableError(qres.error) THEN Resolved
    ELSE Rejected(qres.error)

\* ------------------------------------------------------- BatchQueue
Min(a, b) == IF a < b THEN a ELSE b

\* The state of a BatchQueue after its constructor.
NewQueue ==
    [queue |-> <<>>, isProcessing |-> FALSE, flushInterval |-> TRUE, pending |-> <<>>]

\* A slip: flush() without the isProcessing test.
flush_noProcessingTest(s, caller) ==
    IF Len(s.queue) = 0 THEN s
    ELSE [s EXCEPT !.isProcessing = TRUE,
                   !.queue = <<>>,
                   !.pending = Append(@, [items |-> s.queue, caller |-> caller])]

\* A slip: flush() without the test for an empty buffer.
flush_noEmptyTest(s, caller) ==
    IF s.isProcessing THEN s
    ELSE [s EXCEPT !.isProcessing = TRUE,
                   !.queue = <<>>,
                   !.pending = Append(@, [items |-> s.queue, caller |-> caller])]

\* flush(), up to its await of insertFn: the snapshot is taken and the call to
\* insertFn is pending.  (The second test, itemsToInsert.length === 0, cannot
\* succeed after the first one and is left out.)
flush(s, caller) ==
    IF s.isProcessing \/ Len(s.queue) = 0 THEN s
    ELSE [s EXCEPT !.isProcessing = TRUE,
                   !.queue = <<>>,
                   !.pending = Append(@, [items |-> s.queue, caller |-> caller])]

\* Whether that flush() call reached insertFn (its promise is then pending;
\* otherwise it is already resolved).
Started(s, t) == Len(t.pending) > Len(s.pending)

\* A slip: the flush starts one event early.
add_oneEarly(s, item) ==
    LET t == [s EXCEPT !.queue = Append(@, item)]
    IN  IF Len(t.queue) >= maxBatchSize - 1 THEN flush(t, "add") ELSE t

\* A slip: the flush starts only above the batch size.
add_aboveBatchSize(s, item) ==
    LET t == [s EXCEPT !.queue = Append(@, item)]
    IN  IF Len(t.queue) > maxBatchSize THEN flush(t, "add") ELSE t

add(s, item) ==
    LET t == [s EXCEPT !.queue = Append(@, item)]
    IN  IF Len(t.queue) >= maxBatchSize THEN flush(t, "add") ELSE t

\* The setInterval callback.
onInterval(s) == IF Len(s.queue) > 0 THEN flush(s, "timer") ELSE s

\* A slip: destroy() without clearInterval.
destroy_keepsTimer(s) ==
    IF Len(s.queue) > 0 THEN flush(s, "destroy") ELSE s

destroy(s) ==
    LET t == [s EXCEPT !.flushInterval = FALSE]
    IN  IF Len(t.queue) > 0 THEN flush(t, "destroy") ELSE t

\* A slip: the catch of flush() ends without `throw error`.
flushThrows_swallowed(ires) == FALSE

\* flush() rethrows exactly the errors it does not classify as ignorable.
flushThrows(ires) == ~ires.ok /\ ~isIgnorableError(ires.error)

RemoveAt(seq, i) == SubSeq(seq, 1, i - 1) \o SubSeq(seq, i + 1, Len(seq))

\* A slip: the failed batch is put back behind the events that arrived since.
reinsert_atTail(q, items) == q \o items

\* The reinsertion of a failed batch.
reinsert(q, items) ==
    IF Len(q) < maxQueueSize
    THEN items \o q
    ELSE SubSeq(items, 1, Min(retrySliceLen, Len(items))) \o q

\* A slip: the batch is put back whatever the outcome.
flushSettle_alwaysReinsert(s, i, ires) ==
    [s EXCEPT !.queue = reinsert(@, s.pending[i].items),
              !.isProcessing = FALSE,
              !.pending = RemoveAt(@, i)]

\* A slip: the flag is lowered in the try block, not in a finally, so a flush
\* that throws leaves it set.
flushSettle_flagStaysSet(s, i, ires) ==
    [s EXCEPT !.queue = IF flushThrows(ires) THEN reinsert(@, s.pending[i].items) ELSE @,
              !.isProcessing = flushThrows(ires),
              !.pending = RemoveAt(@, i)]

\* flush() from the settlement of insertFn to its end (catch and finally).
flushSettle(s, i, ires) ==
    [s EXCEPT !.queue = IF flushThrows(ires) THEN reinsert(@, s.pending[i].items) ELSE @,
              !.isProcessing = FALSE,
              !.pending = RemoveAt(@, i)]

\* -------------------------------------------------- the click route
\* NextResponse.json({ success: true }, { status: 200 })
Ok200 == [success |-> TRUE, status |-> 200]
BadRequest == [success |-> FALSE, status |-> 400]
NoResponse == [success |-> FALSE, status |-> 0]
NoTask == [kind |-> "none", link_id |-> Null, linktree_id |-> Null]

\* uuidRegex.test: the ids of the shape of a UUID are the two character ones,
\* a letter and a digit.
isUuid(c) == Len(c) = 2 /\ c[1] \in {"l", "p"} /\ c[2] \in {"1", "2", "3"}

\* A slip: a request without a usable id is answered with an error.
POST_rejectsBadId(req) ==
    IF req.throws THEN [response |-> Ok200, task |-> NoTask]
    ELSE IF Missing(req.id) \/ ~isUuid(Trim(req.id.chars))
    THEN [response |-> BadRequest, task |-> NoTask]
    ELSE [response |-> Ok200,
          task |-> [kind |-> "lookup", link_id |-> Str(Trim(req.id.chars)),
                    linktree_id |-> Null]]

\* The POST handler of the click route, up to its return: the response, and
\* the background chain it leaves behind.  req.throws: something in the try
\* block throws (the outer catch answers).
POST(req) ==
    IF req.throws THEN [response |-> Ok200, task |-> NoTask]
    ELSE IF Missing(req.id) THEN [response |-> Ok200, task |-> NoTask]
    ELSE IF ~isUuid(Trim(req.id.chars)) THEN [response |-> Ok200, task |-> NoTask]
    ELSE LET linktreeId == IF Truthy(req.linktree_id) THEN req.linktree_id ELSE Null
         IN  IF ~Missing(linktreeId)
             THEN [response |-> Ok200,
                   task |-> [kind |-> "direct", link_id |-> Str(Trim(req.id.chars)),
                             linktree_id |-> Str(Trim(linktreeId.chars))]]
             ELSE [response |-> Ok200,
                   task |-> [kind |-> "lookup", link_id |-> Str(Trim(req.id.chars)),
                             linktree_id |-> Null]]

\* The page a link belongs to (links.linktree_id).
Owner(l) == IF l = L1 THEN P1 ELSE P2

\* What extractAnalyticsData can settle with.
AnalyticsResults ==
    {[ok |-> FALSE, ip_address |-> Null, session_id |-> Null]}
        \cup {[ok |-> TRUE, ip_address |-> i, session_id |-> s] :
                 i \in {Ip, Blank}, s \in {Blank, Tok}}

\* analyticsData.session_id?.trim() || null
sessionOf(s) == IF s.null \/ Trim(s.chars) = <<>> THEN Null ELSE Str(Trim(s.chars))

NoClick == [found |-> FALSE, rec |-> Record(Null, Null, Null, Null)]

\* The background chain of a request: the record it passes to addClick, if
\* it gets that far.  a is the outcome of extractAnalyticsData; queryFails
\* says that the SELECT on links rejects; links are the rows of links.
click(task, a, queryFails, links) ==
    IF ~a.ok THEN NoClick
    ELSE IF task.kind = "direct"
    THEN IF Missing(a.ip_address) THEN NoClick
         ELSE [found |-> TRUE,
               rec |-> Record(task.link_id, task.linktree_id,
                              Str(Trim(a.ip_address.chars)), sessionOf(a.session_id))]
    ELSE IF queryFails THEN NoClick
    ELSE IF task.link_id \notin links THEN NoClick
    ELSE IF Missing(Owner(task.link_id)) \/ Missing(a.ip_address) THEN NoClick
    ELSE [found |-> TRUE,
          rec |-> Record(task.link_id, Str(Trim(Owner(task.link_id).chars)),
                         Str(Trim(a.ip_address.chars)), sessionOf(a.session_id))]

\* ------------------------------------------------------------- state
NoLast ==
    [op |-> "init", q |-> "none", item |-> Record(Null, Null, Null, Null), called |-> {}, caller |-> "none",
     items |-> <<>>, before |-> <<>>, qres |-> Resolved, ires |-> Resolved,
     thrown |-> FALSE, logged |-> {}, response |-> NoResponse, outcome |-> "none"]

FaqIdle ==
    [pc |-> "idle", pending |-> {}, seen |-> [q \in Queues |-> 0], error |-> NoError]

SdIdle == [pc |-> "idle", sig |-> "none", flushed |-> {}, error |-> NoError]

\* The database before any event is stored: both pages and both links exist.
\* lost counts the statements whose reply did not come back.
NewDb ==
    [linktrees |-> {P1, P2}, links |-> {L1, L2}, page_views |-> <<>>,
     link_clicks |-> <<>>, lost |-> 0]

\* The table an insert function of q writes to.
TableOf(q) == IF q = "click" THEN "link_clicks" ELSE "page_views"

\* The foreign keys of a row: linktree_id REFERENCES linktrees(id), and in
\* link_clicks link_id REFERENCES links(id).
ParentsExist(d, q, row) ==
    /\ row.linktree_id \in d.linktrees
    /\ q = "click" => row.link_id \in d.links

\* INSERT INTO page_views / link_clicks ... VALUES rows ON CONFLICT DO
\* NOTHING, as one statement.  A row whose parent is missing makes the whole
\* statement fail with 23503 and nothing is stored.  The only unique
\* constraint of either table is its primary key id, which the insert leaves
\* to its default gen_random_uuid(): a new row never conflicts with a stored
\* one, so ON CONFLICT DO NOTHING skips nothing.  The id of a stored row is
\* its place in the table.
insert(d, q, rows) ==
    IF \E i \in 1..Len(rows) : ~ParentsExist(d, q, rows[i])
    THEN [db |-> d, res |-> Rejected(ForeignKeyViolation)]
    ELSE [db |-> [d EXCEPT ![TableOf(q)] = @ \o rows], res |-> Resolved]

\* The rows of a table that stay when the parents in gone are deleted (ON
\* DELETE CASCADE).
Keep(table, field, gone) ==
    SelectSeq(table, LAMBDA row : row[field] \notin gone)

\* DELETE FROM linktrees WHERE id = p, with its cascades to links, page_views
\* and link_clicks.
deleteLinktree(d, p) ==
    LET gone == {l \in d.links : Owner(l) = p}
    IN  [d EXCEPT !.linktrees = @ \ {p},
                  !.links = @ \ gone,
                  !.page_views = Keep(@, "linktree_id", {p}),
                  !.link_clicks = Keep(Keep(@, "linktree_id", {p}), "link_id", gone)]

\* DELETE FROM links WHERE id = l, with its cascade to link_clicks.
deleteLink(d, l) ==
    [d EXCEPT !.links = @ \ {l}, !.link_clicks = Keep(@, "link_id", {l})]

\* ---------------------------------------------------- retryWithBackoff
\* The defaults of its parameters.
defaultMaxRetries == 3
defaultInitialDelay == 1000

\* What fn() can throw: an Error with a message, or another value (one whose
\* message would classify it, and isError does not hold).
Thrown(isError, message) == [isError |-> isError, message |-> message]
ErrTimeout == Thrown(TRUE, <<"t", "i", "m", "e", "o", "u", "t">>)
ErrUpper == Thrown(TRUE, <<"E", "T", "I", "M", "E", "O", "U", "T">>)
ErrConnect ==
    Thrown(TRUE, <<"C", "o", "n", "n", "e", "c", "t", " ", "T", "i", "m", "e", "o", "u", "t">>)
ErrFetch == Thrown(TRUE, <<"f", "e", "t", "c", "h", " ", "f", "a", "i", "l", "e", "d">>)
ErrMixed == Thrown(TRUE, <<"T", "i", "m", "e", "o", "u", "t">>)
ErrOther == Thrown(TRUE, <<"d", "e", "n", "i", "e", "d">>)
NotAnError == Thrown(FALSE, <<"t", "i", "m", "e", "o", "u", "t">>)
ThrownValues == {ErrTimeout, ErrUpper, ErrConnect, ErrFetch, ErrMixed, ErrOther, NotAnError}
NoThrown == Thrown(FALSE, <<>>)

\* How one call of fn() settles.
FnResults ==
    {[ok |-> TRUE, value |-> v, error |-> NoThrown] : v \in {"a", "b"}}
        \cup {[ok |-> FALSE, value |-> "none", error |-> e] : e \in ThrownValues}

\* A slip: every Error is retried.
isTimeoutError_anyError(error) == error.isError

isTimeoutError(error) ==
    /\ error.isError
    /\ \/ Includes(error.message, <<"t", "i", "m", "e", "o", "u", "t">>)
       \/ Includes(error.message, <<"T", "I", "M", "E", "O", "U", "T">>)
       \/ Includes(error.message,
                   <<"C", "o", "n", "n", "e", "c", "t", " ", "T", "i", "m", "e", "o", "u", "t">>)
       \/ Includes(error.message,
                   <<"f", "e", "t", "c", "h", " ", "f", "a", "i", "l", "e", "d">>)

\* Math.pow(2, n)
RECURSIVE Pow2(_)
Pow2(n) == IF n = 0 THEN 1 ELSE 2 * Pow2(n - 1)

\* A slip: the delay grows by initialDelay with every attempt.
backoff_linear(initialDelay, attempt) == initialDelay * (attempt + 1)

\* initialDelay * Math.pow(2, attempt)
backoff(initialDelay, attempt) == initialDelay * Pow2(attempt)

\* No call of retryWithBackoff is running.  Of a running call: attempt is the
\* loop variable, calls counts the calls of fn, failures are the values fn
\* threw, delays the delays slept, in order.
RbIdle ==
    [pc |-> "idle", maxRetries |-> 0, initialDelay |-> 0, attempt |-> 0, calls |-> 0,
     failures |-> <<>>, delays |-> <<>>, value |-> "none", error |-> NoThrown]

\* retryWithBackoff(fn, maxRetries, initialDelay) up to its first await: the
\* loop is entered when 0 <= maxRetries, and fn is called.
rbStart(maxRetries, initialDelay) ==
    [RbIdle EXCEPT !.pc = "calling", !.maxRetries = maxRetries,
                   !.initialDelay = initialDelay, !.calls = 1]

\* A slip: the last retry is not made.
rbSettle_oneRetryFewer(r, res) ==
    IF res.ok THEN [r EXCEPT !.pc = "returned", !.value = res.value]
    ELSE LET f == [r EXCEPT !.failures = Append(@, res.error)]
         IN  IF isTimeoutError(res.error) /\ r.attempt + 1 < r.maxRetries
             THEN [f EXCEPT !.pc = "sleeping",
                            !.delays = Append(@, backoff(r.initialDelay, r.attempt))]
             ELSE [f EXCEPT !.pc = "threw", !.error = res.error]

\* ... when the awaited fn() settles with res.
rbSettle(r, res) ==
    IF res.ok THEN [r EXCEPT !.pc = "returned", !.value = res.value]
    ELSE LET f == [r EXCEPT !.failures = Append(@, res.error)]
         IN  IF isTimeoutError(res.error) /\ r.attempt < r.maxRetries
             THEN [f EXCEPT !.pc = "sleeping",
                            !.delays = Append(@, backoff(r.initialDelay, r.attempt))]
             ELSE [f EXCEPT !.pc = "threw", !.error = res.error]

\* ... when the delay is over: continue, the next attempt calls fn.
rbWake(r) == [r EXCEPT !.pc = "calling", !.attempt = @ + 1, !.calls = @ + 1]

\* --------------------------------------------------------- createLinktree
\* How many callers run createLinktree at the same time.
MaxCreators == 2
Creators == 1 .. MaxCreators

\* How many entries stand for the thousand of the uid cache's size limit.
CacheKilo == 2
\* The pages that exist before any call: one more than the cache may keep.
NPages == CacheKilo + 1

Digits == <<"1", "2", "3", "4", "5", "6", "7", "8", "9">>
\* A uid: a string over uidAlphabet, as the characters it is made of.
Uid(n) == <<"u", Digits[n]>>

\* The rows of linktrees: id and uid (the other columns play no part here).
ExistingPages == [i \in 1 .. NPages |-> [id |-> i, uid |-> Uid(i)]]

\* What generateUid() can return: a random string, which may be the uid of an
\* existing page or of a page another call is about to insert.
UidCandidates == {Uid(1), Uid(NPages + 1)}

\* const maxAttempts = 10
maxAttempts == 10

\* SELECT id FROM linktrees WHERE uid = $1
rowsWithUid(p, uid) == {i \in 1 .. Len(p) : p[i].uid = uid}

NoUid == <<>>
\* No call is running.  Of a running call: uid and attempts are the locals of
\* that name, generated counts the calls of generateUid().
ClIdle == [pc |-> "idle", uid |-> NoUid, attempts |-> 0, generated |-> 0, error |-> "none"]

\* createLinktree up to its first await: attempts = 0 < maxAttempts, a uid is
\* generated and the uniqueness query is sent.
clStart(u) == [ClIdle EXCEPT !.pc = "checking", !.uid = u, !.generated = 1]

\* A slip: the loop gives up one attempt early.
clChecked_oneAttemptFewer(c, rows, u) ==
    IF rows = {} THEN [c EXCEPT !.pc = "inserting"]
    ELSE IF c.attempts + 1 < maxAttempts - 1
         THEN [c EXCEPT !.attempts = @ + 1, !.uid = u, !.generated = @ + 1]
         ELSE [c EXCEPT !.pc = "failed", !.attempts = @ + 1, !.uid = NoUid,
                        !.error = "Failed to generate unique identifier after multiple attempts"]

\* ... when the uniqueness query returns rows: no row breaks the loop, and the
\* test after the loop passes (uid is set, attempts < maxAttempts), so the
\* transaction begins; a row counts an attempt and either generates the next
\* uid (u) and sends the next query, or leaves the loop and throws.
clChecked(c, rows, u) ==
    IF rows = {} THEN [c EXCEPT !.pc = "inserting"]
    ELSE IF c.attempts + 1 < maxAttempts
         THEN [c EXCEPT !.attempts = @ + 1, !.uid = u, !.generated = @ + 1]
         ELSE [c EXCEPT !.pc = "failed", !.attempts = @ + 1, !.uid = NoUid,
                        !.error = "Failed to generate unique identifier after multiple attempts"]

\* A slip: the table has no UNIQUE constraint on uid.
insertPage_noUnique(p, uid) ==
    [ok |-> TRUE, pages |-> Append(p, [id |-> Len(p) + 1, uid |-> uid])]

\* INSERT INTO linktrees (..., uid, ...): uid is UNIQUE, so the statement fails
\* with a unique violation when a row has that uid, and adds a row otherwise.
insertPage(p, uid) ==
    IF rowsWithUid(p, uid) # {}
    THEN [ok |-> FALSE, pages |-> p]
    ELSE [ok |-> TRUE, pages |-> Append(p, [id |-> Len(p) + 1, uid |-> uid])]

\* ... the transaction, from BEGIN to COMMIT or ROLLBACK: the insert of the
\* page, then the rest of the callback (the links), which may fail; any error
\* rolls everything back and is rethrown.
clTransaction(c, p, restFails) ==
    LET r == insertPage(p, c.uid) IN
    IF ~r.ok THEN [cl |-> [c EXCEPT !.pc = "failed", !.error = "unique violation"], pages |-> p]
    ELSE IF restFails THEN [cl |-> [c EXCEPT !.pc = "failed", !.error = "rolled back"], pages |-> p]
    ELSE [cl |-> [c EXCEPT !.pc = "returned"], pages |-> r.pages]

\* ----------------------------------------------------- getLinktreeIdByUid
\* How many clock ticks stand for the 24 hours of CACHE_TTL.
Day == 1
CACHE_TTL == Day
\* The clock stops when the entries cached first have expired.
MaxClock == Day
\* How many calls of getLinktreeIdByUid wait for their query at once.
MaxLookups == 1

\* The 1000 of "if (uidToIdCache.size > 1000)".
cacheLimit == CacheKilo

NoReturn == [id |-> 0, how |-> "none", evicted |-> FALSE]
\* uidToIdCache is empty: a Map, as its entries in insertion order.  pending
\* are the uids whose query is under way; ret is what the last call returned
\* (id 0 for null) and whether it deleted an entry.
NewCache == [entries |-> <<>>, now |-> 0, pending |-> <<>>, ret |-> NoReturn]

\* uidToIdCache.get(uid): the entry's index, 0 for undefined.
cacheGet(entries, uid) ==
    IF \E i \in 1 .. Len(entries) : entries[i].uid = uid
    THEN CHOOSE i \in 1 .. Len(entries) : entries[i].uid = uid
    ELSE 0

\* uidToIdCache.set(uid, {id, timestamp}): a key the Map has keeps its place.
cacheSet(entries, uid, id, now) ==
    LET e == [uid |-> uid, id |-> id, timestamp |-> now]
        i == cacheGet(entries, uid)
    IN IF i = 0 THEN Append(entries, e) ELSE [entries EXCEPT ![i] = e]

\* A slip: the size test is off by one entry.
cacheTrim_oneLate(entries) ==
    IF Len(entries) > cacheLimit + 1
    THEN IF entries[1].uid # <<>> THEN Tail(entries) ELSE entries
    ELSE entries

\* if (size > 1000) { firstKey = keys().next().value; if (firstKey) delete }:
\* the empty string is the one key that is not truthy.
cacheTrim(entries) ==
    IF Len(entries) > cacheLimit
    THEN IF entries[1].uid # <<>> THEN Tail(entries) ELSE entries
    ELSE entries

\* The module has been loaded: initializeQueues() has built both queues and
\* started their timers; nothing has been enqueued.
Init ==
    /\ bq = [q \in Queues |-> NewQueue]
    /\ nextId = [q \in Queues |-> 1]
    /\ faq = FaqIdle
    /\ sd = SdIdle
    /\ last = NoLast
    /\ tasks = <<>>
    /\ db = NewDb
    /\ rb = RbIdle
    /\ cl = [c \in Creators |-> ClIdle]
    /\ pages = ExistingPages
    /\ cache = NewCache

\* process.exit(0) has not run.
Alive == sd.pc # "exited"

\* ----------------------------------------------------- addView / addClick
\* addView(view) / addClick(click): a record that fails the test is dropped;
\* otherwise the queue exists and the record goes to add().
addRecord(B, q, rec) == IF isValid(q, rec) THEN [B EXCEPT ![q] = add(@, rec)] ELSE B

\* A call of addView (q = "view") or addClick (q = "click") with the record rec.
Enqueue(q, rec, limit) ==
    /\ Alive
    /\ nextId[q] <= limit
    /\ LET item == [rec EXCEPT !.id = nextId[q]]
       IN  /\ bq' = addRecord(bq, q, item)
           /\ nextId' = IF isValid(q, rec) THEN [nextId EXCEPT ![q] = @ + 1] ELSE nextId
           /\ last' = [NoLast EXCEPT
                  !.op = IF isValid(q, rec) THEN "add" ELSE "skip",
                  !.q = q, !.item = item,
                  !.called = IF isValid(q, rec) /\ Len(bq[q].queue) + 1 >= maxBatchSize
                             THEN {q} ELSE {}]
    /\ UNCHANGED <<faq, sd, env>>

\* addView(view) / addClick(click) with a well-formed record.
Add(q, limit) == Enqueue(q, ValidRecord(q), limit)

\* ---------------------------------------------------- the click route
\* A POST to the click route: the handler runs to its return.
Post(req) ==
    /\ Alive
    /\ Len(tasks) < MaxTasks
    /\ LET r == POST(req)
       IN  /\ tasks' = IF r.task.kind = "none" THEN tasks ELSE Append(tasks, r.task)
           /\ last' = [NoLast EXCEPT !.op = "post", !.response = r.response]
    /\ UNCHANGED <<bq, nextId, faq, sd, db, rb, adm>>

\* The promises of the i-th waiting chain have settled: its then-callback
\* runs (or its catch), up to and including addClick.
TaskRuns(i, a, queryFails) ==
    /\ Alive
    /\ i \in 1..Len(tasks)
    /\ nextId["click"] <= MaxRouteEvents
    /\ LET c == click(tasks[i], a, queryFails, db.links)
           item == [c.rec EXCEPT !.id = nextId["click"]]
           added == c.found /\ isValid("click", c.rec)
       IN  /\ bq' = IF c.found THEN addRecord(bq, "click", item) ELSE bq
           /\ nextId' = IF added THEN [nextId EXCEPT !["click"] = @ + 1] ELSE nextId
           /\ last' = [NoLast EXCEPT
                  !.op = IF added THEN "add" ELSE "skip",
                  !.q = "click", !.item = item, !.caller = "task",
                  !.called = IF added /\ Len(bq["click"].queue) + 1 >= maxBatchSize
                             THEN {"click"} ELSE {}]
    /\ tasks' = RemoveAt(tasks, i)
    /\ UNCHANGED <<faq, sd, db, rb, adm>>

\* ------------------------------------------------------------ the timer
TimerFire(q) ==
    /\ Alive
    /\ bq[q].flushInterval
    /\ bq' = [bq EXCEPT ![q] = onInterval(@)]
    /\ last' = [NoLast EXCEPT !.op = "timer", !.q = q,
                              !.called = IF Len(bq[q].queue) > 0 THEN {q} ELSE {}]
    /\ UNCHANGED <<nextId, faq, sd, env>>

\* ------------------------------------------------------- flushAllQueues
\* flushAllQueues() up to its await of Promise.all: initializeQueues() finds
\* both queues, flush() is called on each.  Promise.all of promises that are
\* all resolved already resolves without another callback running.
FlushAllQueuesCall ==
    /\ Alive
    /\ faq.pc = "idle"
    /\ LET B == [q \in Queues |-> flush(bq[q], "flushAllQueues")]
           started == {q \in Queues : Started(bq[q], B[q])}
       IN  /\ bq' = B
           /\ faq' = [pc |-> IF started = {} THEN "resolved" ELSE "awaiting",
                      pending |-> started,
                      seen |-> nextId,
                      error |-> NoError]
    /\ last' = [NoLast EXCEPT !.op = "flushAllQueues", !.called = Queues]
    /\ UNCHANGED <<nextId, sd, env>>

\* The caller of flushAllQueues() has taken its outcome.
FlushAllQueuesReturn ==
    /\ Alive
    /\ faq.pc \in {"resolved", "rejected"}
    /\ faq' = FaqIdle
    /\ last' = [NoLast EXCEPT !.op = "flushAllQueuesReturn"]
    /\ UNCHANGED <<bq, nextId, sd, env>>

\* A slip: a later failure replaces the error of the first one.
FaqOnSettle_lastError(f, q, thrown, error) ==
    IF thrown /\ f.pc \in {"awaiting", "rejected"}
    THEN [f EXCEPT !.pc = "rejected", !.pending = {}, !.error = error]
    ELSE IF f.pc # "awaiting" \/ q \notin f.pending THEN f
    ELSE [f EXCEPT !.pc = IF f.pending = {q} THEN "resolved" ELSE "awaiting",
                   !.pending = @ \ {q}]

\* Promise.all in flushAllQueues, when the flush of q settles.
FaqOnSettle(f, q, thrown, error) ==
    IF f.pc # "awaiting" \/ q \notin f.pending THEN f
    ELSE IF thrown THEN [f EXCEPT !.pc = "rejected", !.pending = {}, !.error = error]
    ELSE [f EXCEPT !.pc = IF f.pending = {q} THEN "resolved" ELSE "awaiting",
                   !.pending = @ \ {q}]

\* ------------------------------------------------------------- shutdown
\* How the signal's handler ends once flushAll() has resolved.
Finish(sig) == IF sig = "beforeExit" THEN "returned" ELSE "exited"

\* flushAll() after `await clickQueue.flush()` has resolved.
SdAfterClick(B, s) ==
    [bq |-> [B EXCEPT !["click"] = destroy(@)],
     sd |-> [s EXCEPT !.pc = Finish(s.sig), !.flushed = @ \cup {"click"}]]

\* flushAll() after `await viewQueue.flush()` has resolved.
SdAfterView(B, s) ==
    LET B1 == [B EXCEPT !["view"] = destroy(@)]
        c == flush(B1["click"], "flushAll")
        s1 == [s EXCEPT !.flushed = @ \cup {"view"}]
    IN  IF Started(B1["click"], c)
        THEN [bq |-> [B1 EXCEPT !["click"] = c], sd |-> [s1 EXCEPT !.pc = "awaitClick"]]
        ELSE SdAfterClick(B1, s1)

\* The handler, when the flush of q that flushAll() awaits settles.
SdOnSettle(B, s, q, thrown, error) ==
    IF ~((s.pc = "awaitView" /\ q = "view") \/ (s.pc = "awaitClick" /\ q = "click"))
    THEN [bq |-> B, sd |-> s]
    ELSE IF thrown THEN [bq |-> B, sd |-> [s EXCEPT !.pc = "rejected", !.error = error]]
    ELSE IF q = "view" THEN SdAfterView(B, s)
    ELSE SdAfterClick(B, s)

\* SIGTERM, SIGINT or beforeExit: the handler runs flushAll() up to its first
\* pending await.
Signal(sig) ==
    /\ sd.pc = "idle"
    /\ LET v == flush(bq["view"], "flushAll")
           s == [sd EXCEPT !.sig = sig]
           r == IF Started(bq["view"], v)
                THEN [bq |-> [bq EXCEPT !["view"] = v], sd |-> [s EXCEPT !.pc = "awaitView"]]
                ELSE SdAfterView(bq, s)
       IN  /\ bq' = r.bq
           /\ sd' = r.sd
    /\ last' = [NoLast EXCEPT !.op = "signal", !.called = {"view"}]
    /\ UNCHANGED <<nextId, faq, env>>

\* ------------------------------------------------- an insert settles
\* What the catch of the flush() caller logs.
CallerLogs(caller, thrown, error) ==
    IF ~thrown THEN {}
    ELSE IF caller = "timer" /\ ~isIgnorableError(error) THEN {"Auto-flush error"}
    ELSE IF caller = "flushAllQueues" THEN {"Error flushing queues"}
    ELSE {}

\* The query() of the i-th pending insert of q settles with qres: insertFn
\* settles, flush() resumes after its await and runs to its end, and its
\* promise settles for whoever called it.
Settle(q, i, qres, outcome) ==
    /\ Alive
    /\ i \in 1..Len(bq[q].pending)
    /\ LET rec == bq[q].pending[i]
           ires == insertFn(rec.items, qres)
           thrown == flushThrows(ires)
           B == [bq EXCEPT ![q] = flushSettle(@, i, ires)]
           awaited == rec.caller = "flushAll"
           r == IF awaited THEN SdOnSettle(B, sd, q, thrown, ires.error)
                ELSE [bq |-> B, sd |-> sd]
       IN  /\ bq' = r.bq
           /\ sd' = r.sd
           /\ faq' = IF rec.caller = "flushAllQueues"
                     THEN FaqOnSettle(faq, q, thrown, ires.error)
                     ELSE faq
           /\ last' = [NoLast EXCEPT
                  !.op = "settle", !.q = q, !.caller = rec.caller,
                  !.items = rec.items, !.before = bq[q].queue,
                  !.qres = qres, !.ires = ires, !.thrown = thrown,
                  !.outcome = outcome,
                  !.logged = (IF thrown THEN {"Batch insert error"} ELSE {})
                             \cup (IF thrown /\ Len(bq[q].queue) >= maxQueueSize
                                   THEN {"Queue too large"} ELSE {})
                             \cup CallerLogs(rec.caller, thrown, ires.error)]
    /\ UNCHANGED nextId

\* ... with the database left out: the query settles in any way.
InsertSettles(q, i, qres) ==
    /\ Settle(q, i, qres, "any")
    /\ UNCHANGED env

\* ... with the database: the statement of the i-th pending insert of q
\* either does not reach the database ("unsent": the connection fails, nothing
\* is stored), or runs and its reply arrives ("replied"), or runs while the
\* connection breaks before the reply ("lost": the query rejects with a
\* connection error whatever the statement did).  An insert function whose
\* filter leaves no row sends no statement.
StoreSettles(q, i, outcome) ==
    /\ i \in 1..Len(bq[q].pending)
    /\ outcome = "lost" => db.lost < MaxLost
    /\ LET rows == insertValues(q, bq[q].pending[i].items)
           r == insert(db, q, rows)
           sent == rows # <<>> /\ outcome # "unsent"
           qres == IF rows = <<>> THEN Resolved
                   ELSE IF outcome = "replied" THEN r.res
                   ELSE Rejected(ConnectionLost)
       IN  /\ Settle(q, i, qres, IF rows = <<>> THEN "none" ELSE outcome)
           /\ db' = [(IF sent THEN r.db ELSE db) EXCEPT
                        !.lost = IF outcome = "lost" THEN @ + 1 ELSE @]
    /\ UNCHANGED <<tasks, rb, adm>>

\* A page is deleted.
DeleteLinktree(p) ==
    /\ Alive
    /\ p \in db.linktrees
    /\ db' = deleteLinktree(db, p)
    /\ last' = [NoLast EXCEPT !.op = "deleteLinktree"]
    /\ UNCHANGED <<bq, nextId, faq, sd, tasks, rb, adm>>

\* A link is deleted.
DeleteLink(l) ==
    /\ Alive
    /\ l \in db.links
    /\ db' = deleteLink(db, l)
    /\ last' = [NoLast EXCEPT !.op = "deleteLink"]
    /\ UNCHANGED <<bq, nextId, faq, sd, tasks, rb, adm>>

\* ---------------------------------------------------- retryWithBackoff
RbCall(maxRetries, initialDelay) ==
    /\ rb.pc = "idle"
    /\ rb' = rbStart(maxRetries, initialDelay)
    /\ UNCHANGED <<bq, nextId, faq, sd, last, tasks, db, adm>>

RbFnSettles(res) ==
    /\ rb.pc = "calling"
    /\ rb' = rbSettle(rb, res)
    /\ UNCHANGED <<bq, nextId, faq, sd, last, tasks, db, adm>>

RbWakes ==
    /\ rb.pc = "sleeping"
    /\ rb' = rbWake(rb)
    /\ UNCHANGED <<bq, nextId, faq, sd, last, tasks, db, adm>>

\* The caller has taken the outcome.
RbDone ==
    /\ rb.pc \in {"returned", "threw"}
    /\ rb' = RbIdle
    /\ UNCHANGED <<bq, nextId, faq, sd, last, tasks, db, adm>>

\* ------------------------------------------------- createLinktree, steps
\* Caller c calls createLinktree(data); generateUid() returns u.
ClCall(c, u) ==
    /\ cl[c].pc = "idle"
    /\ cl' = [cl EXCEPT ![c] = clStart(u)]
    /\ UNCHANGED <<bq, nextId, faq, sd, last, tasks, db, rb, pages, cache>>

\* The uniqueness query of caller c returns; u is the next value of
\* generateUid(), should the loop go round again.
ClCheckReturns(c, u) ==
    /\ cl[c].pc = "checking"
    /\ cl' = [cl EXCEPT ![c] = clChecked(cl[c], rowsWithUid(pages, cl[c].uid), u)]
    /\ UNCHANGED <<bq, nextId, faq, sd, last, tasks, db, rb, pages, cache>>

\* The transaction of caller c commits or rolls back.
ClTransaction(c, restFails) ==
    /\ cl[c].pc = "inserting"
    /\ LET r == clTransaction(cl[c], pages, restFails) IN
        /\ cl' = [cl EXCEPT ![c] = r.cl]
        /\ pages' = r.pages
    /\ UNCHANGED <<bq, nextId, faq, sd, last, tasks, db, rb, cache>>

\* The caller has the page or the error.
ClDone(c) ==
    /\ cl[c].pc \in {"returned", "failed"}
    /\ cl' = [cl EXCEPT ![c] = ClIdle]
    /\ UNCHANGED <<bq, nextId, faq, sd, last, tasks, db, rb, pages, cache>>

\* --------------------------------------------- getLinktreeIdByUid, steps
\* getLinktreeIdByUid(uid) up to its first await: an entry younger than
\* CACHE_TTL is returned, otherwise the query is sent.
getLinktreeIdByUid(c, uid) ==
    LET i == cacheGet(c.entries, uid) IN
    IF i # 0 /\ c.now - c.entries[i].timestamp < CACHE_TTL
    THEN [c EXCEPT !.ret = [id |-> c.entries[i].id, how |-> "hit", evicted |-> FALSE]]
    ELSE [c EXCEPT !.pending = Append(@, uid)]

\* ... when the k-th pending query returns the rows of p: no row returns
\* null; a row is cached, the cache is cut, and the id is returned.
lookupReturns(c, k, p) ==
    LET uid == c.pending[k]
        rows == rowsWithUid(p, uid)
        rest == RemoveAt(c.pending, k)
    IN IF rows = {}
       THEN [c EXCEPT !.pending = rest,
                      !.ret = [id |-> 0, how |-> "null", evicted |-> FALSE]]
       ELSE LET id == p[CHOOSE i \in rows : TRUE].id
                set == cacheSet(c.entries, uid, id, c.now)
                cut == cacheTrim(set)
            IN [c EXCEPT !.pending = rest, !.entries = cut,
                         !.ret = [id |-> id, how |-> "miss", evicted |-> Len(cut) < Len(set)]]

\* A call of getLinktreeIdByUid(uid); at most MaxLookups queries are under way.
LookupCall(uid) ==
    /\ cache.pending = getLinktreeIdByUid(cache, uid).pending \/ Len(cache.pending) < MaxLookups
    /\ cache' = getLinktreeIdByUid(cache, uid)
    /\ UNCHANGED <<bq, nextId, faq, sd, last, tasks, db, rb, cl, pages>>

\* The k-th pending query returns.
LookupReturns(k) ==
    /\ k \in 1 .. Len(cache.pending)
    /\ cache' = lookupReturns(cache, k, pages)
    /\ UNCHANGED <<bq, nextId, faq, sd, last, tasks, db, rb, cl, pages>>

\* Date.now() moves on.
Tick ==
    /\ cache.now < MaxClock
    /\ cache' = [cache EXCEPT !.now = @ + 1]
    /\ UNCHANGED <<bq, nextId, faq, sd, last, tasks, db, rb, cl, pages>>

\* ------------------------------------------------------ specifications
AnyInsertSettles ==
    \E q \in Queues : \E i \in 1..Len(bq[q].pending) : \E r \in QueryResults :
        InsertSettles(q, i, r)

\* Both queues take events; the admin refresh calls flushAllQueues().
Next ==
    \/ \E q \in Queues : Add(q, MaxPairEvents)
    \/ \E q \in Queues : TimerFire(q)
    \/ AnyInsertSettles
    \/ FlushAllQueuesCall
    \/ FlushAllQueuesReturn

Spec == Init /\ [][Next]_vars

\* Both queues take events; the process is told to stop.
NextShutdown ==
    \/ \E q \in Queues : Add(q, MaxPairEvents)
    \/ \E q \in Queues : TimerFire(q)
    \/ AnyInsertSettles
    \/ \E sig \in Signals : Signal(sig)

SpecShutdown == Init /\ [][NextShutdown]_vars

\* Every caller of flush() at once (add, timer, flushAllQueues, flushAll and
\* destroy), with the events going to the view queue.
NextLifecycle ==
    \/ Add("view", MaxPairEvents + Kilo)
    \/ \E q \in Queues : TimerFire(q)
    \/ AnyInsertSettles
    \/ FlushAllQueuesCall
    \/ FlushAllQueuesReturn
    \/ \E sig \in Signals : Signal(sig)

SpecLifecycle == Init /\ [][NextLifecycle]_vars

\* One queue under load: events keep arriving at the view queue while its
\* inserts are slow or fail.
NextBacklog ==
    \/ Add("view", MaxEvents)
    \/ TimerFire("view")
    \/ \E i \in 1..Len(bq["view"].pending) : \E r \in QueryResults :
          InsertSettles("view", i, r)

SpecBacklog == Init /\ [][NextBacklog]_vars

\* One queue under load whose inserts succeed or fail with an ignorable
\* error: no flush() of the queue ever throws.
NextSteady ==
    \/ Add("view", MaxEvents)
    \/ TimerFire("view")
    \/ \E i \in 1..Len(bq["view"].pending) :
          \E r \in {Resolved, Rejected(ForeignKeyViolation), Rejected(UniqueViolation)} :
              InsertSettles("view", i, r)

SpecSteady == Init /\ [][NextSteady]_vars

\* The insert in flight returns, in any way.
InsertReturns ==
    \E i \in 1..Len(bq["view"].pending) : \E r \in QueryResults : InsertSettles("view", i, r)
\* The insert in flight succeeds.
InsertSucceeds ==
    \E i \in 1..Len(bq["view"].pending) : InsertSettles("view", i, Resolved)

\* One queue under load, where setInterval keeps calling back, every insert
\* returns, and inserts do not fail for ever.
SpecLive ==
    /\ SpecBacklog
    /\ WF_vars(TimerFire("view"))
    /\ WF_vars(InsertReturns)
    /\ SF_vars(InsertSucceeds)

\* What a caller can pass in a field that must name something, when valid
\* is a proper value of it: nothing, the empty string, a blank, the value.
FieldInputs(valid) == {Null, Empty, Blank, valid}
\* The records addView / addClick can be called with.
RecordInputs(q) ==
    {Record(l, p, i, s) :
        l \in (IF q = "click" THEN FieldInputs(L1) ELSE {Null}),
        p \in FieldInputs(P1), i \in FieldInputs(Ip), s \in {Null}}

\* The recording path alone: addView / addClick are called with well-formed
\* and malformed records; the timer does not fire and nobody calls flush().
NextIngest ==
    \/ \E q \in Queues : \E rec \in RecordInputs(q) : Enqueue(q, rec, MaxIngestEvents)
    \/ AnyInsertSettles

SpecIngest == Init /\ [][NextIngest]_vars

\* What the statement of an insert can come to.
Outcomes == {"unsent", "replied", "lost"}

\* The queues with their tables: views and clicks of both pages are
\* recorded, the timers flush, the statements run, pages and links are
\* deleted.
NextStore ==
    \/ \E p \in {P1, P2} : Enqueue("view", Record(Null, p, Ip, Null), MaxStoreEvents)
    \/ \E l \in {L1, L2} : Enqueue("click", Record(l, Owner(l), Ip, Null), MaxStoreEvents)
    \/ \E q \in Queues : TimerFire(q)
    \/ \E q \in Queues : \E i \in 1..Len(bq[q].pending) : \E o \in Outcomes :
          StoreSettles(q, i, o)
    \/ \E p \in {P1, P2} : DeleteLinktree(p)
    \/ \E l \in {L1, L2} : DeleteLink(l)

SpecStore == Init /\ [][NextStore]_vars

\* The initialDelay values retryWithBackoff is called with.
InitialDelays == {1, defaultInitialDelay}

\* retryWithBackoff alone, with an operation that fails and succeeds in any
\* way.
NextRetry ==
    \/ \E m \in 0..MaxRetries : \E d \in InitialDelays : RbCall(m, d)
    \/ \E res \in FnResults : RbFnSettles(res)
    \/ RbWakes
    \/ RbDone

SpecRetry == Init /\ [][NextRetry]_vars

\* Concurrent createLinktree calls on one page store.
NextCreate ==
    \/ \E c \in Creators : \E u \in UidCandidates : ClCall(c, u)
    \/ \E c \in Creators : \E u \in UidCandidates : ClCheckReturns(c, u)
    \/ \E c \in Creators : \E restFails \in BOOLEAN : ClTransaction(c, restFails)
    \/ \E c \in Creators : ClDone(c)

SpecCreate == Init /\ [][NextCreate]_vars

\* The uids getLinktreeIdByUid is called with: those of the existing pages, one
\* no page has, and the empty string.
LookupUids == {Uid(i) : i \in 1 .. NPages + 1} \cup {<<>>}

\* getLinktreeIdByUid calls while time passes.
NextCache ==
    \/ \E uid \in LookupUids : LookupCall(uid)
    \/ \E k \in 1 .. MaxLookups : LookupReturns(k)
    \/ Tick

SpecCache == Init /\ [][NextCache]_vars

\* The requests the click route can get.
Requests ==
    {[id |-> i, linktree_id |-> p, throws |-> th] :
        i \in {Null, Blank, Str(<<"x">>), Str(<<" ", "l", "1">>), L3},
        p \in {Null, Blank, P1}, th \in BOOLEAN}

\* The click route: requests come in, their background chains run, the
\* click queue flushes at the batch size and its inserts settle.
NextRoute ==
    \/ \E req \in Requests : Post(req)
    \/ \E i \in 1..Len(tasks) : \E a \in AnalyticsResults : \E f \in BOOLEAN :
          TaskRuns(i, a, f)
    \/ \E i \in 1..Len(bq["click"].pending) : \E r \in QueryResults :
          InsertSettles("click", i, r)

SpecRoute == Init /\ [][NextRoute]_vars

\* What a caller can pass as session_id: nothing, the empty string, a token.
SessionInputs == {Null, Empty, Tok}

\* The admin refresh: page views with and without a session token are
\* recorded, and flushAllQueues() is called.
NextRefresh ==
    \/ \E s \in SessionInputs : Enqueue("view", Record(Null, P1, Ip, s), MaxIngestEvents)
    \/ TimerFire("view")
    \/ AnyInsertSettles
    \/ FlushAllQueuesCall
    \/ FlushAllQueuesReturn

SpecRefresh == Init /\ [][NextRefresh]_vars

\* ============================================================== claims
\* The events of a batch or buffer, by enqueue number.
Events(seq) == {seq[i].id : i \in 1..Len(seq)}
\* The events of q that are in a batch handed to insertFn and not settled.
PendingEvents(q) == UNION {Events(bq[q].pending[i].items) : i \in 1..Len(bq[q].pending)}
Settled == last.op = "settle"
\* "an ignorable error (error code containing 23505 or 23503)"
IgnorableCode(e) ==
    e.hasCode /\ (Includes(e.code, <<2, 3, 5, 0, 5>>) \/ Includes(e.code, <<2, 3, 5, 0, 3>>))

\* C1: for each queue, in every reachable state at most one insertFn call is
\* in flight, whoever calls flush(): add, the timer, flushAllQueues, the
\* shutdown handler or destroy.
C1_AtMostOneInsertInFlight == \A q \in Queues : Len(bq[q].pending) <= 1

\* A flush() was called (not by add) on a queue that holds events while an
\* insert of that queue is in flight.
C1_Witness ==
    \E q \in last.called :
        /\ last.op # "add"
        /\ bq[q].queue # <<>>
        /\ bq[q].isProcessing
        /\ Len(bq[q].pending) = 1

\* C2: when flushAllQueues() resolves, no event enqueued before the call is
\* still in a live buffer or in a batch in flight.
C2_FlushAllQueuesLeavesNothingBehind ==
    faq.pc = "resolved" =>
        \A q \in Queues :
            \A e \in Events(bq[q].queue) \cup PendingEvents(q) : e >= faq.seen[q]

\* C3: once the signal's handler has ended, the flush() of every queue has
\* been awaited and every queue has been destroyed.
C3_ShutdownFlushesEveryQueue ==
    sd.pc \in {"exited", "returned", "rejected"} =>
        /\ sd.flushed = Queues
        /\ \A q \in Queues : ~bq[q].flushInterval

\* C4: the reinsertion of a failed batch never leaves more than maxQueueSize
\* events in the live buffer.
C4_ReinsertionRespectsCap ==
    (Settled /\ last.thrown) => Len(bq[last.q].queue) <= maxQueueSize

\* C5: when the failed batch and the buffer together exceed the cap, the
\* buffer keeps the oldest events up to the cap and drops the rest.
C5_OldestKeptUpToCap ==
    (Settled /\ last.thrown /\ Len(last.items) + Len(last.before) > maxQueueSize) =>
        bq[last.q].queue = SubSeq(last.items \o last.before, 1, maxQueueSize)

\* C5, its last part alone: no event of the failed batch is dropped while a
\* newer event is kept.
C5_NoNewerKeptOverOlder ==
    (Settled /\ last.thrown) =>
        \A d \in Events(last.items) \ Events(bq[last.q].queue) :
            \A k \in Events(bq[last.q].queue) : k < d

C7_EmptyAfterSuccess == (Settled /\ last.qres.ok) => bq[last.q].queue = <<>>

\* C7 amended: when a flush() whose insert succeeded ends, the buffer holds no
\* event of the snapshot: it holds exactly the events enqueued while the
\* insert was in flight, in enqueue order.
C7_OnlyLaterEventsAfterSuccess ==
    (Settled /\ last.qres.ok) =>
        /\ Events(bq[last.q].queue) \cap Events(last.items) = {}
        /\ bq[last.q].queue = last.before
        /\ \A e \in Events(bq[last.q].queue) : \A x \in Events(last.items) : e > x

\* An insert succeeded while events had been enqueued behind it.
C7_Witness == Settled /\ last.qres.ok /\ bq[last.q].queue # <<>> /\ last.items # <<>>

\* No event comes back: whatever is in a buffer or in flight after a step was
\* there before the step or has just been enqueued.
NoEventComesBack ==
    \A q \in Queues :
        Events(bq'[q].queue) \cup PendingEvents(q)'
            \subseteq Events(bq[q].queue) \cup PendingEvents(q) \cup {nextId[q]}

\* C8: when the insert of a flush() fails with an ignorable error, no event
\* of the snapshot goes back to the buffer, the batch is not submitted again,
\* and flush() does not throw.
C8_IgnorableFailureDropsBatch ==
    /\ [](  (Settled /\ ~last.qres.ok /\ IgnorableCode(last.qres.error)) =>
              /\ ~last.thrown
              /\ bq[last.q].queue = last.before
              /\ Events(last.items) \cap (Events(bq[last.q].queue) \cup PendingEvents(last.q)) = {})
    /\ [][NoEventComesBack]_vars

\* An insert failed on a deleted parent (23503) with events enqueued behind it.
C8_Witness ==
    /\ Settled /\ last.qres = Rejected(ForeignKeyViolation)
    /\ last.items # <<>>
    /\ bq[last.q].queue # <<>>

\* The flush() of q that settles in this step was awaited by flushAllQueues.
AwaitedByFaq(q) == faq.pc = "awaiting" /\ q \in faq.pending
\* ... by flushAll.
AwaitedBySd(q) ==
    \/ sd.pc = "awaitView" /\ q = "view"
    \/ sd.pc = "awaitClick" /\ q = "click"

\* C9: when the insert of a flush() fails with a non-ignorable error, flush()
\* throws that same error to its caller (flushAllQueues and flushAll reject
\* with it); when the timer started the flush, the error is logged and
\* reaches no caller.
C9_ErrorReachesCaller ==
    [][ (last'.op = "settle" /\ ~last'.qres.ok /\ ~IgnorableCode(last'.qres.error)) =>
          /\ last'.thrown
          /\ last'.ires = last'.qres
          /\ "Batch insert error" \in last'.logged
          /\ last'.caller = "timer" =>
                /\ "Auto-flush error" \in last'.logged
                /\ faq' = faq
                /\ sd' = sd
          /\ (last'.caller = "flushAllQueues" /\ AwaitedByFaq(last'.q)) =>
                /\ faq'.pc = "rejected"
                /\ faq'.error = last'.qres.error
          /\ (last'.caller = "flushAll" /\ AwaitedBySd(last'.q)) =>
                /\ sd'.pc = "rejected"
                /\ sd'.error = last'.qres.error
      ]_vars

\* flushAllQueues() has rejected with the error of the insert that just failed.
C9_Witness ==
    /\ Settled /\ last.caller = "flushAllQueues"
    /\ ~last.qres.ok
    /\ faq.pc = "rejected"
    /\ faq.error = last.qres.error

\* A flush started by the timer failed and only the logs show it.
C9_WitnessTimer ==
    /\ Settled /\ last.caller = "timer"
    /\ last.thrown
    /\ "Auto-flush error" \in last.logged

\* The buffer of q at the moment the step's flush() was called.
QueueAtCall(q) == IF last'.op = "add" THEN Append(bq[q].queue, last'.item) ELSE bq[q].queue

\* C10: flush() called while the buffer is empty, or while a flush of the
\* queue is in progress, calls no insertFn and leaves the buffer and the
\* processing flag as they were; insertFn never gets an empty batch.
C10_NoOpFlush ==
    /\ [](\A q \in Queues : \A i \in 1..Len(bq[q].pending) : bq[q].pending[i].items # <<>>)
    /\ [][ \A q \in last'.called :
              (bq[q].isProcessing \/ QueueAtCall(q) = <<>>) =>
                  /\ bq'[q].queue = QueueAtCall(q)
                  /\ bq'[q].isProcessing = bq[q].isProcessing
                  /\ bq'[q].pending = bq[q].pending
         ]_vars

\* flushAllQueues() called flush() on a queue that holds events while its
\* insert is in flight, and on an empty idle queue.
C10_Witness ==
    /\ last.op = "flushAllQueues"
    /\ bq["view"].isProcessing /\ bq["view"].queue # <<>>
    /\ Len(bq["view"].pending) = 1 /\ bq["view"].pending[1].caller # "flushAllQueues"
    /\ bq["click"].queue = <<>> /\ ~bq["click"].isProcessing /\ bq["click"].pending = <<>>

\* ------------------------------------------------------------ C11, C12
\* The sequence <<1, ..., n>>.
UpTo(n) == [i \in 1..n |-> i]
\* The enqueue numbers of a batch or buffer, in its order.
Ids(seq) == [i \in 1..Len(seq) |-> seq[i].id]

\* C11: while fewer than maxBatchSize valid events have been enqueued in a
\* queue, and neither the timer has fired nor flush() has been called from
\* outside, no insertFn call of that queue has been made: none is in flight,
\* none has settled, and every accepted event is still in the buffer.
C11_NoPersistBelowBatchSize ==
    \A q \in Queues :
        nextId[q] - 1 < maxBatchSize =>
            /\ bq[q].pending = <<>>
            /\ ~bq[q].isProcessing
            /\ Ids(bq[q].queue) = UpTo(nextId[q] - 1)
            /\ ~(last.op = "settle" /\ last.q = q)

\* maxBatchSize - 1 events have been accepted by a queue, and a call with a
\* malformed record has just returned.
C11_Witness ==
    \E q \in Queues :
        /\ nextId[q] = maxBatchSize
        /\ Len(bq[q].queue) = maxBatchSize - 1
        /\ last.op = "skip" /\ last.q = q

\* C12: the add() of the maxBatchSize-th event of a queue starts an insertFn
\* call with exactly the maxBatchSize events in order, the only call in flight
\* for that queue; and until a further event is enqueued no other step starts
\* one, so that exactly maxBatchSize enqueued events make exactly one call.
C12_BatchSizeStartsOneFlush ==
    [][\A q \in Queues :
          /\ (last'.op = "add" /\ last'.q = q /\ last'.item.id = maxBatchSize) =>
                /\ bq[q].pending = <<>>
                /\ Len(bq'[q].pending) = 1
                /\ Ids(bq'[q].pending[1].items) = UpTo(maxBatchSize)
                /\ bq'[q].pending[1].caller = "add"
                /\ bq'[q].queue = <<>>
          /\ (Len(bq'[q].pending) > Len(bq[q].pending) /\ nextId'[q] - 1 <= maxBatchSize) =>
                (last'.op = "add" /\ last'.q = q /\ last'.item.id = maxBatchSize)
      ]_vars

\* Exactly maxBatchSize events have been enqueued, the insert started by the
\* last of them has failed and its batch is back in the buffer: nothing else
\* has started.
C12_Witness ==
    \E q \in Queues :
        /\ nextId[q] = maxBatchSize + 1
        /\ last.op = "settle" /\ last.q = q /\ last.thrown
        /\ Len(bq[q].queue) = maxBatchSize
        /\ bq[q].pending = <<>>

\* ----------------------------------------------------------------- C15
\* "non-empty trimmed": the field is a string with a character that is not a
\* blank.
NonEmptyTrimmed(f) == ~f.null /\ \E i \in 1..Len(f.chars) : f.chars[i] # " "
WellFormed(q, rec) ==
    /\ NonEmptyTrimmed(rec.linktree_id)
    /\ NonEmptyTrimmed(rec.ip_address)
    /\ q = "click" => NonEmptyTrimmed(rec.link_id)

\* C15: every event in the view buffer has non-empty trimmed linktree_id and
\* ip_address, every event in the click buffer also a non-empty trimmed
\* link_id; and a call of addView / addClick with a record that lacks one of
\* them leaves the buffer as it was.
C15_OnlyWellFormedEventsBuffered ==
    /\ [](\A q \in Queues : \A i \in 1..Len(bq[q].queue) : WellFormed(q, bq[q].queue[i]))
    /\ [][\A q \in Queues :
            (last'.op \in {"add", "skip"} /\ last'.q = q /\ ~WellFormed(q, last'.item)) =>
                bq'[q] = bq[q]
        ]_vars

\* addClick has just been called with a blank link_id while the click buffer
\* holds events.
C15_Witness ==
    /\ last.op = "skip" /\ last.q = "click"
    /\ last.item.link_id = Blank
    /\ NonEmptyTrimmed(last.item.linktree_id) /\ NonEmptyTrimmed(last.item.ip_address)
    /\ bq["click"].queue # <<>>

\* ----------------------------------------------------------------- C14
\* flushAll() calls destroy() on a queue in the step that records the queue
\* in sd.flushed.
Destroyed(q) == q \in sd.flushed

\* C14: once destroy() has been called on a queue, no flush of that queue is
\* started by its timer; the handler that called destroy() goes on (it does
\* not end with an error in that step), and when the insert started by
\* destroy() fails later, the failure reaches nobody: the handler's and
\* flushAllQueues' states stay as they are.
C14_DestroyStopsTimerAndNeverThrows ==
    [][/\ \A q \in Queues :
            Destroyed(q) =>
                /\ ~bq'[q].flushInterval
                /\ ~(last'.op = "timer" /\ last'.q = q)
                /\ Len(bq'[q].pending) > Len(bq[q].pending) =>
                      bq'[q].pending[Len(bq'[q].pending)].caller # "timer"
       /\ sd'.flushed # sd.flushed => sd'.pc # "rejected"
       /\ (last'.op = "settle" /\ last'.caller = "destroy") =>
             /\ sd' = sd
             /\ faq' = faq
             /\ last'.logged \subseteq {"Batch insert error", "Queue too large"}
      ]_vars

\* The process goes on after destroy(): the insert that destroy() started on
\* a queue has failed, its batch is back in the buffer, and no timer is left
\* to flush it.
C14_Witness ==
    \E q \in Queues :
        /\ Destroyed(q)
        /\ Alive
        /\ last.op = "settle" /\ last.q = q /\ last.caller = "destroy" /\ last.thrown
        /\ bq[q].queue # <<>>
        /\ ~bq[q].isProcessing

\* ----------------------------------------------------------------- C16
\* The flush of q that has just settled was started by flushAllQueues() and
\* failed with an error that is not ignorable.
FaqFlushFailed(q) ==
    /\ last'.op = "settle" /\ last'.q = q /\ last'.caller = "flushAllQueues"
    /\ ~last'.ires.ok /\ ~IgnorableCode(last'.ires.error)

\* C16: when a flush that the running flushAllQueues() call awaits fails with
\* a non-ignorable error, the call rejects with that error; a failure of the
\* other flush after that leaves the first error in place; and a call that
\* has rejected never turns into one that resolved.
C16_RejectsWithFirstError ==
    [][/\ \A q \in Queues :
            /\ (FaqFlushFailed(q) /\ faq.pc = "awaiting" /\ q \in faq.pending) =>
                  /\ faq'.pc = "rejected"
                  /\ faq'.error = last'.ires.error
                  /\ "Error flushing queues" \in last'.logged
            /\ (FaqFlushFailed(q) /\ faq.pc = "rejected") => faq' = faq
       /\ faq.pc = "rejected" => faq'.pc \in {"rejected", "idle"}
       /\ (faq.pc = "rejected" /\ faq'.pc = "idle") => last'.op = "flushAllQueuesReturn"
      ]_vars

\* Both flushes of one flushAllQueues() call have failed, the second with
\* another error than the first, and the call holds the first one.
C16_Witness ==
    /\ faq.pc = "rejected"
    /\ last.op = "settle" /\ last.caller = "flushAllQueues" /\ last.thrown
    /\ last.ires.error # faq.error
    /\ \A q \in Queues : faq.seen[q] > 1
    /\ \A q \in Queues : bq[q].pending = <<>> /\ bq[q].queue # <<>>

\* ----------------------------------------------------------------- C17
\* n events have been enqueued in the view queue, all of them are in its
\* buffer in enqueue order, and the queue is idle.
FreshViews(n) ==
    /\ nextId["view"] - 1 = n
    /\ Ids(bq["view"].queue) = UpTo(n)
    /\ ~bq["view"].isProcessing
    /\ bq["view"].pending = <<>>

\* C17: for 0 < n < maxBatchSize, flushAllQueues() called on a view queue
\* that holds its first n events makes exactly one insertFn call for that
\* queue: its batch is those n events in enqueue order, and the rows handed
\* to the database are those events in that order, with session_id null for
\* the events without a session token and the token for the others.
C17_OneBatchInOrder ==
    [][\A n \in 1..(maxBatchSize - 1) :
          (FreshViews(n) /\ last'.op = "flushAllQueues") =>
              /\ bq'["view"].pending =
                     <<[items |-> bq["view"].queue, caller |-> "flushAllQueues"]>>
              /\ bq'["view"].queue = <<>>
              /\ "view" \in faq'.pending
              /\ LET items == bq'["view"].pending[1].items
                     rows == insertValues("view", items)
                 IN  /\ Len(rows) = n
                     /\ \A i \in 1..n :
                           /\ rows[i].at = i
                           /\ rows[i].linktree_id = items[i].linktree_id
                           /\ rows[i].ip_address = items[i].ip_address
                           /\ rows[i].session_id =
                                 IF items[i].session_id \in {Null, Empty}
                                 THEN Null ELSE items[i].session_id
      ]_vars

\* flushAllQueues() has just been called on a view queue that held two events,
\* the first with an empty session_id, the second with a token.
C17_Witness ==
    /\ last.op = "flushAllQueues"
    /\ nextId["view"] = 3
    /\ Len(bq["view"].pending) = 1
    /\ Ids(bq["view"].pending[1].items) = UpTo(2)
    /\ bq["view"].pending[1].caller = "flushAllQueues"
    /\ bq["view"].pending[1].items[1].session_id = Empty
    /\ bq["view"].pending[1].items[2].session_id = Tok

\* ----------------------------------------------------------------- C13
\* C13: every POST to the click route is answered with success (status 200),
\* before anything is recorded and whatever its id and body are; the
\* background chain of a request ends without an error reaching anyone,
\* whether it skips the click or passes it to addClick; and when a flush that
\* add() started fails, the failure reaches nobody either: it is logged by
\* flush() and changes neither flushAllQueues' nor the shutdown handler's
\* state, nor the waiting chains.
C13_RecordingNeverFails ==
    [][/\ last'.op = "post" =>
             /\ last'.response = [success |-> TRUE, status |-> 200]
             /\ bq' = bq
       /\ last'.op \in {"add", "skip"} =>
             /\ faq' = faq /\ sd' = sd
             /\ last'.logged = {}
             /\ Len(tasks') <= Len(tasks)
       /\ (last'.op = "settle" /\ last'.caller = "add") =>
             /\ faq' = faq /\ sd' = sd /\ tasks' = tasks
             /\ last'.logged \subseteq {"Batch insert error", "Queue too large"}
      ]_vars

\* The click route has recorded maxBatchSize clicks, and the insert that the
\* add() of the last one started has failed with an error that is not
\* ignorable.
C13_Witness ==
    /\ last.op = "settle" /\ last.q = "click" /\ last.caller = "add"
    /\ last.thrown
    /\ nextId["click"] = maxBatchSize + 1
    /\ Len(bq["click"].queue) = maxBatchSize

\* ------------------------------------------------------------ C18, C19
\* The natural key of an event's row: everything but the generated id.
NaturalKey(row) ==
    <<row.link_id, row.linktree_id, row.ip_address, row.session_id, row.at>>
Keys(table) == {NaturalKey(table[i]) : i \in 1..Len(table)}
\* The rows the statement of the batch that has just settled carried.
Submitted == insertValues(last'.q, last'.items)
\* The statement of that batch ran in the database.
Ran == last'.op = "settle" /\ last'.outcome \in {"replied", "lost"}

\* C18: a batch whose events are all stored already (by natural key) leaves
\* the table as it is when it is submitted again.
C18_DuplicateSubmissionIsNoOp ==
    [][\A q \in Queues :
          (Ran /\ last'.q = q /\ Submitted # <<>>
               /\ Keys(Submitted) \subseteq Keys(db[TableOf(q)])) =>
              db'[TableOf(q)] = db[TableOf(q)]
      ]_vars

\* C19: when some events of a batch name a deleted page or link and the
\* others name existing ones, and the statement runs and replies, the insert
\* function reports success and the table gains exactly the rows of the
\* others, in order.
C19_OnlyOrphansSkipped ==
    [][\A q \in Queues :
          LET orphan(row) == ~ParentsExist(db, q, row)
          IN  (/\ last'.op = "settle" /\ last'.q = q /\ last'.outcome = "replied"
               /\ \E i \in 1..Len(Submitted) : orphan(Submitted[i])
               /\ \E i \in 1..Len(Submitted) : ~orphan(Submitted[i])) =>
                  /\ last'.ires.ok
                  /\ db'[TableOf(q)] =
                        db[TableOf(q)] \o SelectSeq(Submitted, LAMBDA row : ~orphan(row))
      ]_vars

\* ----------------------------------------------------------------- C20
\* "a timeout-classified error": an Error whose message contains one of
\* 'timeout', 'TIMEOUT', 'Connect Timeout', 'fetch failed'.
TimeoutClassified(e) ==
    /\ e.isError
    /\ \E s \in {ErrTimeout.message, <<"T", "I", "M", "E", "O", "U", "T">>,
                  ErrConnect.message, ErrFetch.message} : Includes(e.message, s)
\* The operation has failed k times, each time with a timeout-classified
\* error.
TimeoutsOnly(k) ==
    /\ Len(rb.failures) = k
    /\ \A i \in 1..k : TimeoutClassified(rb.failures[i])

\* C20: for k <= maxRetries, when the operation has failed k times with a
\* timeout-classified error the wrapper has not thrown; and when it then
\* succeeds, the wrapper returns that value after k + 1 calls of the
\* operation and exactly k delays, the i-th (i = 0..k-1) of
\* initialDelay * 2^i.
C20_RetriesThenReturns ==
    /\ [](\A k \in 0..rb.maxRetries :
            (rb.pc # "idle" /\ TimeoutsOnly(k)) =>
                /\ rb.pc # "threw"
                /\ rb.pc = "returned" =>
                      /\ rb.calls = k + 1
                      /\ Len(rb.delays) = k
                      /\ \A i \in 0..(k - 1) : rb.delays[i + 1] = rb.initialDelay * (2 ^ i))
    /\ [][\A k \in 0..rb.maxRetries :
            (rb.pc = "calling" /\ TimeoutsOnly(k) /\ rb'.failures = rb.failures
                /\ rb'.pc # "calling") =>
                /\ rb'.pc = "returned"
                /\ rb'.value \in {"a", "b"}
        ]_vars

\* The operation failed twice with a timeout-classified error and succeeded
\* at the third call: the wrapper has returned after the delays
\* initialDelay and 2 * initialDelay.
C20_Witness ==
    /\ rb.pc = "returned"
    /\ rb.maxRetries >= 2
    /\ TimeoutsOnly(2)
    /\ rb.value = "a"
    /\ rb.delays = <<rb.initialDelay, 2 * rb.initialDelay>>
    /\ rb.initialDelay = defaultInitialDelay

\* ------------------------------------------------------- C21, C22, C23
\* Every call of the operation so far has failed with a timeout-classified
\* error.
AllTimeouts == \A i \in 1..Len(rb.failures) : TimeoutClassified(rb.failures[i])
LastFailure == rb.failures[Len(rb.failures)]

\* C21 as stated: when every attempt fails with a timeout-classified error,
\* the wrapper throws the last failure after the operation has been called
\* exactly maxRetries times.
C21_ThrowsAfterMaxRetriesCalls ==
    (rb.pc = "threw" /\ AllTimeouts) =>
        /\ rb.calls = rb.maxRetries
        /\ rb.error = LastFailure

\* C21 amended: when every attempt fails with a timeout-classified error,
\* the wrapper does not throw while the operation has been called at most
\* maxRetries times; it throws the last failure after exactly maxRetries + 1
\* calls and maxRetries delays.
C21_ThrowsAfterMaxRetriesPlusOneCalls ==
    (rb.pc # "idle" /\ AllTimeouts) =>
        /\ rb.calls <= rb.maxRetries + 1
        /\ Len(rb.failures) <= rb.maxRetries => rb.pc # "threw"
        /\ rb.pc = "threw" =>
              /\ rb.calls = rb.maxRetries + 1
              /\ Len(rb.failures) = rb.maxRetries + 1
              /\ Len(rb.delays) = rb.maxRetries
              /\ rb.error = LastFailure

\* With the default maxRetries the operation has failed four times with
\* timeout-classified errors, the last one another than the first, and the
\* wrapper has thrown.
C21_Witness ==
    /\ rb.pc = "threw"
    /\ rb.maxRetries = defaultMaxRetries
    /\ AllTimeouts
    /\ rb.calls = defaultMaxRetries + 1
    /\ rb.failures[1] # LastFailure
    /\ rb.error = LastFailure

\* String.prototype.toLowerCase, letter by letter.
UpperCase ==
    <<"A", "B", "C", "D", "E", "F", "G", "H", "I", "J", "K", "L", "M",
      "N", "O", "P", "Q", "R", "S", "T", "U", "V", "W", "X", "Y", "Z">>
LowerCase ==
    <<"a", "b", "c", "d", "e", "f", "g", "h", "i", "j", "k", "l", "m",
      "n", "o", "p", "q", "r", "s", "t", "u", "v", "w", "x", "y", "z">>
ToLower(ch) ==
    IF \E i \in 1..Len(UpperCase) : UpperCase[i] = ch
    THEN LowerCase[CHOOSE i \in 1..Len(UpperCase) : UpperCase[i] = ch]
    ELSE ch
Lowered(s) == [i \in 1..Len(s) |-> ToLower(s[i])]
\* An Error whose message contains "timeout" in any letter case, or "fetch
\* failed".
SaysTimeout(e) ==
    /\ e.isError
    /\ \/ Includes(Lowered(e.message), <<"t", "i", "m", "e", "o", "u", "t">>)
       \/ Includes(e.message, <<"f", "e", "t", "c", "h", " ", "f", "a", "i", "l", "e", "d">>)

\* C22: a failure whose message contains "timeout" in any letter case, or
\* "fetch failed", is retried while attempts remain: the wrapper goes to
\* its delay and does not throw.
C22_TimeoutInAnyCaseIsRetried ==
    [][(/\ rb.pc = "calling"
        /\ Len(rb'.failures) = Len(rb.failures) + 1
        /\ SaysTimeout(rb'.failures[Len(rb'.failures)])
        /\ rb.attempt < rb.maxRetries) =>
            rb'.pc = "sleeping"
      ]_vars

\* C23: when the first call of the operation fails with an error that is
\* not timeout-classified, the wrapper throws that error; the operation has
\* been called once and no delay has been slept.
C23_OtherErrorThrownAtOnce ==
    (rb.pc # "idle" /\ Len(rb.failures) >= 1 /\ ~TimeoutClassified(rb.failures[1])) =>
        /\ rb.pc = "threw"
        /\ rb.calls = 1
        /\ rb.failures = <<rb.error>>
        /\ rb.delays = <<>>

\* Retries remained, and the wrapper has thrown the error of the first call.
C23_Witness ==
    /\ rb.pc = "threw"
    /\ rb.maxRetries = defaultMaxRetries
    /\ rb.failures = <<ErrOther>>
    /\ rb.error = ErrOther
    /\ rb.calls = 1

Exhausted(c) ==
    /\ cl[c].pc = "failed"
    /\ cl[c].error = "Failed to generate unique identifier after multiple attempts"

\* C24: a call of createLinktree whose uniqueness check found a collision
\* on its first k attempts (k < 10) and none on the next has generated
\* exactly k + 1 identifiers and uses the last of them, which is the uid of
\* the row it inserts; a call that found a collision on every attempt fails
\* after exactly 10 attempts and 10 identifiers, and inserts no row.
C24_GenerationAttempts ==
    /\ [](\A c \in Creators :
            /\ cl[c].pc \in {"checking", "inserting", "returned"} =>
                  /\ cl[c].attempts < 10
                  /\ cl[c].generated = cl[c].attempts + 1
                  /\ cl[c].uid # NoUid
            /\ Exhausted(c) => cl[c].attempts = 10 /\ cl[c].generated = 10)
    /\ [][\A c \in Creators :
            /\ (cl[c].pc = "checking" /\ cl'[c].pc = "inserting") =>
                  /\ rowsWithUid(pages, cl[c].uid) = {}
                  /\ cl'[c].uid = cl[c].uid
                  /\ cl'[c].generated = cl[c].generated
            /\ (cl[c].pc = "checking" /\ cl'[c].pc = "checking" /\ cl'[c] # cl[c]) =>
                  /\ rowsWithUid(pages, cl[c].uid) # {}
                  /\ cl'[c].attempts = cl[c].attempts + 1
                  /\ cl'[c].generated = cl[c].generated + 1
            /\ (cl[c].pc = "inserting" /\ cl'[c].pc = "returned") =>
                  /\ Len(pages') = Len(pages) + 1
                  /\ pages'[Len(pages')].uid = cl[c].uid
            /\ (~Exhausted(c) /\ Exhausted(c)') =>
                  /\ cl[c].pc = "checking"
                  /\ rowsWithUid(pages, cl[c].uid) # {}
                  /\ pages' = pages
      ]_vars

\* One call has given up after ten collisions; another met two collisions
\* and inserted its page under the third identifier.
C24_Witness ==
    \E c, d \in Creators :
        /\ Exhausted(c)
        /\ cl[d].pc = "returned"
        /\ cl[d].attempts = 2
        /\ cl[d].generated = 3
        /\ pages[Len(pages)].uid = cl[d].uid

\* C25: no two pages of the store share a uid.
C25_UidsUnique ==
    \A i, j \in 1 .. Len(pages) : pages[i].uid = pages[j].uid => i = j

\* Two calls passed the uniqueness check with the same candidate before
\* either inserted; one has inserted its page, the other's insert failed.
C25_Witness ==
    \E c, d \in Creators :
        /\ cl[c].pc = "returned"
        /\ cl[d].pc = "failed"
        /\ cl[d].error = "unique violation"
        /\ cl[d].uid = cl[c].uid
        /\ pages[Len(pages)].uid = cl[c].uid

\* C30: the uid-to-id cache holds at most 1000 entries whenever a call of
\* getLinktreeIdByUid has returned (between the steps of the calls).
C30_CacheAtMostLimit ==
    Len(cache.entries) <= CacheKilo

\* A call has cached a uid in a full cache after the clock moved on, deleted
\* the oldest entry, and returned.
C30_Witness ==
    /\ cache.ret.how = "miss"
    /\ cache.ret.evicted
    /\ cache.now > 0
    /\ Len(cache.entries) = CacheKilo

\* ------------------------------------------------------------ C26 - C29
\* The events of q the queue holds: in its buffer or in a batch in flight.
Live(q) == Events(bq[q].queue) \cup PendingEvents(q)
\* The events of q that have a row in the table of q.
Stored(q) == {db[TableOf(q)][i].at : i \in 1..Len(db[TableOf(q)])}

\* C26: each accepted event is in exactly one place: no event is in the
\* buffer and in a batch in flight at once, and no event that is stored in the
\* table is still (or again) in the buffer or in a batch in flight.
C26_OwnershipExclusive ==
    \A q \in Queues :
        /\ Events(bq[q].queue) \cap PendingEvents(q) = {}
        /\ Stored(q) \cap Live(q) = {}

\* The queue's own bookkeeping, where "persisted" is read as "the insert
\* reported success": buffer and batches in flight hold each event once and
\* share none; an accepted event enters the buffer or a batch; an event leaves
\* only when its batch settles, with success, with an ignorable error, or with
\* another error while the buffer is at the cap; and no event comes back.
C26_QueueBookkeeping ==
    /\ [](\A q \in Queues :
            /\ Events(bq[q].queue) \cap PendingEvents(q) = {}
            /\ Cardinality(Events(bq[q].queue)) = Len(bq[q].queue)
            /\ \A i \in 1..Len(bq[q].pending) :
                  Cardinality(Events(bq[q].pending[i].items)) = Len(bq[q].pending[i].items)
            /\ \A e \in Live(q) : e < nextId[q])
    /\ [][\A q \in Queues :
            /\ Live(q)' \subseteq Live(q) \cup {nextId[q]}
            /\ nextId'[q] # nextId[q] => nextId[q] \in Live(q)'
            /\ Live(q) \ Live(q)' # {} =>
                  /\ last'.op = "settle" /\ last'.q = q
                  /\ Live(q) \ Live(q)' \subseteq Events(last'.items)
                  /\ \/ last'.qres.ok
                     \/ IgnorableCode(last'.qres.error)
                     \/ last'.thrown /\ Len(last'.before) >= maxQueueSize
      ]_vars

\* C27: every batch handed to insertFn holds at most maxBatchSize events.
C27_BatchAtMostMaxBatchSize ==
    \A q \in Queues : \A i \in 1..Len(bq[q].pending) :
        Len(bq[q].pending[i].items) <= maxBatchSize

\* C28: every event accepted into the buffer leaves the queue in the end,
\* persisted or dropped (it never comes back, see C26_QueueBookkeeping); and
\* when an insert settles, however it does, the processing flag is lowered.
C28_EveryEventLeaves ==
    /\ \A e \in 1..MaxEvents : (e \in Live("view")) ~> (e \notin Live("view"))
    /\ [][\A q \in Queues :
            Len(bq'[q].pending) < Len(bq[q].pending) => ~bq'[q].isProcessing]_vars

\* Every event the queue accepted has left it; the last batch held events
\* that had failed before (it is longer than maxBatchSize) and was persisted.
C28_Witness ==
    /\ nextId["view"] = MaxEvents + 1
    /\ Live("view") = {}
    /\ ~bq["view"].isProcessing
    /\ Settled /\ last.qres.ok
    /\ Len(last.items) > maxBatchSize

\* C29: while no flush of a queue is in flight (and none has failed with a
\* retryable error: no insert does, where this is checked), the buffer holds
\* fewer than maxBatchSize events.
C29_IdleBufferBelowBatchSize ==
    \A q \in Queues :
        (~bq[q].isProcessing /\ bq[q].pending = <<>>) => Len(bq[q].queue) < maxBatchSize
====
